---- MODULE Spec2Model ----
(***************************************************************************)
(* django-webpack-loader: the stats-manifest reader, the process-wide      *)
(* stats cache and the bundle resolution of webpack_loader/loader.py,      *)
(* with the entry points of webpack_loader/utils.py and the configuration  *)
(* merge of webpack_loader/config.py.                                      *)
(*                                                                         *)
(* Python values are modelled structurally: a dict is a function whose     *)
(* DOMAIN is its key set, a str is a sequence of characters (or of opaque  *)
(* tokens where it is never matched), None is the empty tuple and an       *)
(* optional value v is <<v>>.  A request runs as a call stack of frames;   *)
(* it is suspended where it observes the outside world: at the entry of    *)
(* get_assets (the cache lookup and the read of the stats file) and in     *)
(* time.sleep.                                                             *)
(***************************************************************************)
EXTENDS Integers, Sequences, FiniteSets, TLC

VARIABLES
    stats_file,     \* parsed content of config['STATS_FILE'] on disk
    writes,         \* number of times the build tool rewrote the file
    cls_dict,       \* namespace of class WebpackLoader (holds "_assets", if set)
    now,            \* time.time(), in units of one tenth of a second
    settings,       \* django.conf.settings: the attributes the project sets
    LOADED_CONFIG,  \* config.LOADED_CONFIG: configuration name -> WebpackConfig
    th              \* the request threads

vars == <<stats_file, writes, cls_dict, now, settings, LOADED_CONFIG, th>>

------------------------------------------------------------------------------
(* Bounds of the model *)

\* frames the interpreter allows on one call stack (sys.getrecursionlimit())
RecursionLimit == 6
\* rewrites of the stats file by the build tool during one run
MaxWrites == 1
\* the positive TIMEOUT value configurations are drawn from (tenths of a second)
PosTimeout == 2
\* upper end of the clock
MaxTime == 4

Threads == {"t1"}

None == << >>
Some(x) == <<x>>

Range(s) == {s[i] : i \in DOMAIN s}

------------------------------------------------------------------------------
(* Strings.  Chunk names and regular expressions are sequences of          *)
(* characters.                                                             *)

A_JS  == <<"a", ".", "j", "s">>
B_CSS == <<"b", ".", "c", "s", "s">>
M_MAP == <<"m", ".", "m", "a", "p">>
Z_JS  == <<"z", ".", "j", "s">>
G_JS_GZ  == <<"g", ".", "j", "s", ".", "g", "z">>
H_CSS_GZ == <<"h", ".", "c", "s", "s", ".", "g", "z">>

\* ".+\.hot-update.js"
RE_HOT == <<".", "+", "\\", ".", "h", "o", "t", "-", "u", "p", "d", "a", "t", "e",
            ".", "j", "s">>
\* ".+\.map"
RE_MAP == <<".", "+", "\\", ".", "m", "a", "p">>
\* ".*\.js$"
RE_JS  == <<".", "*", "\\", ".", "j", "s", "$">>

\* re.compile, for the pattern syntax the configurations use: \c, ., .+, .*, $
\* and literal characters.  The result is the list of pattern elements.
RECURSIVE re_compile(_)
re_compile(p) ==
    IF p = << >> THEN << >>
    ELSE IF p[1] = "\\" /\ Len(p) >= 2
         THEN <<[k |-> "lit", c |-> p[2]]>> \o re_compile(SubSeq(p, 3, Len(p)))
    ELSE IF p[1] = "." /\ Len(p) >= 2 /\ p[2] = "+"
         THEN <<[k |-> "any+", c |-> ""]>> \o re_compile(SubSeq(p, 3, Len(p)))
    ELSE IF p[1] = "." /\ Len(p) >= 2 /\ p[2] = "*"
         THEN <<[k |-> "any*", c |-> ""]>> \o re_compile(SubSeq(p, 3, Len(p)))
    ELSE IF p[1] = "."
         THEN <<[k |-> "any", c |-> ""]>> \o re_compile(Tail(p))
    ELSE IF p[1] = "$"
         THEN <<[k |-> "end", c |-> ""]>> \o re_compile(Tail(p))
    ELSE <<[k |-> "lit", c |-> p[1]]>> \o re_compile(Tail(p))

\* regex.match(s): the pattern matches a prefix of s (anchored at the start only)
RECURSIVE re_match(_, _)
re_match(regex, s) ==
    IF regex = << >> THEN TRUE
    ELSE LET e == regex[1]
             rest == Tail(regex)
         IN CASE e.k = "lit"  -> s # << >> /\ s[1] = e.c /\ re_match(rest, Tail(s))
              [] e.k = "any"  -> s # << >> /\ re_match(rest, Tail(s))
              [] e.k = "end"  -> s = << >> /\ re_match(rest, s)
              [] e.k = "any+" -> \E n \in 1..Len(s) : re_match(rest, SubSeq(s, n + 1, Len(s)))
              [] e.k = "any*" -> \E n \in 0..Len(s) : re_match(rest, SubSeq(s, n + 1, Len(s)))

------------------------------------------------------------------------------
(* config.py *)

\* a dict lookup with a default: d.get(key, default)
Get(d, key, default) == IF key \in DOMAIN d THEN d[key] ELSE default

\* django.conf.settings: DEBUG as in django's global settings, STATIC_URL
settings_DEBUG == FALSE
STATIC_URL == <<"/static/">>

POLL_INTERVAL == 1

DEFAULT_CONFIG ==
    [CACHE           |-> ~settings_DEBUG,
     BUNDLE_DIR_NAME |-> <<"webpack_bundles/">>,
     STATS_FILE      |-> <<"webpack-stats.json">>,
     POLL_INTERVAL   |-> POLL_INTERVAL,
     TIMEOUT         |-> None,
     IGNORE          |-> <<RE_HOT, RE_MAP>>,
     LOADER_CLASS    |-> <<"webpack_loader.loader.WebpackLoader">>,
     ignores         |-> << >>]

\* a variant of lines 49-54 with the computed 'ignores' entry placed before
\* **cfg, so that an 'ignores' key of the override wins
process_config_KeepsOwnIgnores(cfg) ==
    LET IGNORE == Get(cfg, "IGNORE", DEFAULT_CONFIG.IGNORE)
    IN cfg @@ ("ignores" :> [i \in DOMAIN IGNORE |-> re_compile(IGNORE[i])])
           @@ DEFAULT_CONFIG

\* {**DEFAULT_CONFIG, **cfg, 'ignores': [re.compile(p) for p in cfg.get('IGNORE', ...)]}
\* (f @@ g takes f's value where both are defined: the later dict entry goes first)
process_config(cfg) ==
    LET IGNORE == Get(cfg, "IGNORE", DEFAULT_CONFIG.IGNORE)
    IN ("ignores" :> [i \in DOMAIN IGNORE |-> re_compile(IGNORE[i])])
           @@ cfg @@ DEFAULT_CONFIG

\* the override records settings.WEBPACK_LOADER is drawn from
Overrides ==
    { c @@ t @@ i :
        c \in {<< >>, ("CACHE" :> FALSE)},
        t \in {<< >>, ("TIMEOUT" :> Some(0)), ("TIMEOUT" :> Some(PosTimeout))},
        i \in {<< >>, ("IGNORE" :> << >>), ("IGNORE" :> <<RE_JS>>)} }

\* settings.WEBPACK_LOADER
WEBPACK_LOADER_settings == { ("DEFAULT" :> o) : o \in Overrides }

\* a variant of lines 60-62 without the default of getattr
import_config_NoDefault(s) ==
    LET W == Get(s, "WEBPACK_LOADER", << >>)
    IN [name \in DOMAIN W |-> process_config(W[name])]

\* the import of config.py (lines 60-62): the value LOADED_CONFIG gets under
\* the settings s; without a WEBPACK_LOADER setting the map is {'DEFAULT': {}}
import_config(s) ==
    LET W == Get(s, "WEBPACK_LOADER", ("DEFAULT" :> << >>))
    IN [name \in DOMAIN W |-> process_config(W[name])]

\* load_config (lines 65-67); a name that is no key is a KeyError
load_config(name) == LOADED_CONFIG[name]

------------------------------------------------------------------------------
(* The stats file.  A manifest carries the fields of the TypedDicts of     *)
(* loader.py lines 29-57 that webpack-bundle-tracker writes.               *)

MInit    == [status |-> "initialization"]
MCompile == [status |-> "compile"]
MError   == [status |-> "error", error |-> "ModuleError", message |-> "boom"]
MUnknown == [status |-> "unknown"]

\* main lists a duplicate, a source map and assets with a public path;
\* broken lists a chunk name that is no asset
MDone ==
    [status |-> "done",
     chunks |-> [main   |-> <<A_JS, M_MAP, B_CSS, A_JS>>,
                 empty  |-> << >>,
                 broken |-> <<A_JS, Z_JS>>],
     assets |-> (A_JS  :> [name |-> A_JS])
             @@ (B_CSS :> [name |-> B_CSS, publicPath |-> <<"//cdn/">> \o B_CSS])
             @@ (M_MAP :> [name |-> M_MAP, publicPath |-> <<"//cdn/">> \o M_MAP])]

\* another build: other chunks for main, and a manifest-level public path
MDone2 ==
    [status |-> "done",
     publicPath |-> <<"//cdn/">>,
     chunks |-> [main |-> <<B_CSS>>],
     assets |-> (B_CSS :> [name |-> B_CSS, integrity |-> <<"sha256-x">>])]

MDoneNoChunks == [status |-> "done", assets |-> (A_JS :> [name |-> A_JS])]
MDoneNoAssets == [status |-> "done", chunks |-> [main |-> <<A_JS>>]]

Manifests == {MInit, MCompile, MError, MUnknown, MDone, MDone2, MDoneNoChunks,
              MDoneNoAssets}

Bundles == {"main", "empty", "broken", "nope"}

\* json.load of the stats file (loader.py lines 83-84)
load_assets(file) == file

------------------------------------------------------------------------------
(* The interpreter: frames, calls, returns and exceptions.                 *)
(* A machine m is [k |-> the thread, cls |-> the class namespace].         *)

\* a stack frame: the function, the line it is suspended at, and its locals
Frame(fn, line) ==
    [fn |-> fn, line |-> line, bundle_name |-> "", chunk_name |-> << >>,
     asset_name |-> << >>, compiled |-> TRUE, replace_cache |-> FALSE,
     assets |-> None, timed_out |-> FALSE, start_time |-> 0, todo |-> << >>]

NoOp == [fn |-> "", name |-> "", bundle_name |-> "", asset_name |-> << >>,
         cfg |-> << >>, extension |-> None, attrs |-> << >>]

\* a request thread before its first call
IdleThread ==
    [stack |-> << >>, status |-> "idle", exc |-> "", msg |-> << >>,
     yielded |-> << >>, retval |-> None, op |-> NoOp, reads |-> << >>,
     ngets |-> 0, sleeps |-> 0, forced |-> 0, at |-> None, poll_start |-> None,
     prev |-> None, taken |-> << >>,
     resolved |-> << >>, tags |-> << >>]

Top(m) == m.k.stack[Len(m.k.stack)]
SetTop(m, f) == [m EXCEPT !.k.stack[Len(m.k.stack)] = f]
Pop(m) == [m EXCEPT !.k.stack = SubSeq(@, 1, Len(@) - 1)]

\* the configuration of the loader the call runs on (utils.get_loader)
Config(m) == load_config(m.k.op.name)

\* the exception classes loader.py imports from .exceptions
Taxonomy == {"WebpackError", "WebpackLoaderBadStatsError",
             "WebpackLoaderTimeoutError", "WebpackBundleLookupError"}

\* An exception e travels down the stack.  The two handlers of loader.py are
\* `except KeyError` in get_chunk_from_name (lines 128-130) and around the
\* chunk loop of get_bundle (lines 203-204); both raise the lookup error.
RECURSIVE Unwind(_, _)
Unwind(stack, e) ==
    IF stack = << >> THEN e
    ELSE LET f == stack[Len(stack)]
             below == SubSeq(stack, 1, Len(stack) - 1)
         IN IF e.exc = "KeyError" /\ f.fn = "get_chunk_from_name"
            THEN Unwind(below,
                        [exc |-> "WebpackBundleLookupError",
                         msg |-> <<"The asset name '", f.chunk_name,
                                   "' could not be found.">>])
            ELSE IF e.exc = "KeyError" /\ f.fn = "get_bundle" /\ f.line \in 191..199
            THEN Unwind(below,
                        [exc |-> "WebpackBundleLookupError",
                         msg |-> <<"Cannot resolve bundle ", f.bundle_name, ".">>])
            ELSE Unwind(below, e)

\* the chunk name the for loop of get_bundle (lines 191-199) is at, if it runs
ChunkInProgress(stack) ==
    IF stack # << >> /\ stack[1].fn = "get_bundle" /\ stack[1].line = 192
    THEN Some(Head(stack[1].todo))
    ELSE None

\* bookkeeping: the call takes bundle contents (a chunk list, a chunk asset,
\* the public path) out of the manifest assets
Take(m, assets) == [m EXCEPT !.k.taken = Append(@, assets.status)]

\* the call ends with an exception
Raise(m, exc, msg) ==
    LET e == Unwind(m.k.stack, [exc |-> exc, msg |-> msg])
    IN [m EXCEPT !.k.status = "raised", !.k.exc = e.exc, !.k.msg = e.msg,
                 !.k.at = ChunkInProgress(m.k.stack), !.k.stack = << >>]

\* the call ends normally
Returned(m) == [m EXCEPT !.k.status = "returned", !.k.stack = << >>]

\* a call pushes a frame, unless the interpreter's recursion limit is reached
Call(m, f) ==
    IF m.k.status # "running" THEN m
    ELSE IF Len(m.k.stack) >= RecursionLimit
    THEN Raise(m, "RecursionError", <<"maximum recursion depth exceeded">>)
    ELSE [m EXCEPT !.k.stack = Append(@, f)]

\* self.get_assets(compiled=..., replace_cache=...): the callee is suspended at
\* its entry
call_get_assets(m, compiled, replace_cache) ==
    Call(m, [Frame("get_assets", 91) EXCEPT !.compiled = compiled,
                                            !.replace_cache = replace_cache])

\* self.raise_error_from_stats(), up to its line 144: assets = self.get_assets()
call_raise_error_from_stats(m) ==
    call_get_assets(Call(m, Frame("raise_error_from_stats", 144)), TRUE, FALSE)

\* self.get_chunk_from_name(chunk_name), up to the get_assets call of line 127
call_get_chunk_from_name(m, chunk_name) ==
    call_get_assets(
        Call(m, [Frame("get_chunk_from_name", 127) EXCEPT !.chunk_name = chunk_name]),
        TRUE, FALSE)

------------------------------------------------------------------------------
(* loader.py: class WebpackLoader *)

\* the class body (lines 63-67) annotates _assets and assigns nothing: the
\* class namespace has no "_assets" entry
WebpackLoader_class == << >>

\* global_cache (lines 73-75): cls._assets, an AttributeError if there is none
HasGlobalCache(cls) == "_assets" \in DOMAIN cls
global_cache(cls) == cls["_assets"]

\* django's staticfiles_storage.url
staticfiles_storage_url(path) == STATIC_URL \o path

\* get_chunk_url (lines 132-140); the caller has checked that the keys exist
get_chunk_url(cfg, chunk) ==
    IF "publicPath" \in DOMAIN chunk
    THEN chunk["publicPath"]
    ELSE staticfiles_storage_url(cfg.BUNDLE_DIR_NAME \o chunk["name"])

\* any(regex.match(chunk_name) for regex in self.config['ignores']) (line 196)
Ignored(cfg, chunk_name) ==
    \E i \in DOMAIN cfg.ignores : re_match(cfg.ignores[i], chunk_name)

\* a variant of line 196 that lets an explicit public path bypass the ignore list
ShouldResolve_PublicPathWins(cfg, chunk, chunk_name) ==
    /\ "__url__" \notin DOMAIN chunk
    /\ ("publicPath" \in DOMAIN chunk \/ ~Ignored(cfg, chunk_name))

\* line 196: the chunk has no URL yet and no ignore pattern matches its name
ShouldResolve(cfg, chunk, chunk_name) ==
    "__url__" \notin DOMAIN chunk /\ ~Ignored(cfg, chunk_name)

\* str.endswith
endswith(str, suffix) ==
    /\ Len(str) >= Len(suffix)
    /\ SubSeq(str, Len(str) - Len(suffix) + 1, Len(str)) = suffix

\* django.utils.html.conditional_escape, as format_html applies it to each
\* argument: html.escape of the characters &, <, > and '
conditional_escape(text) ==
    [i \in DOMAIN text |->
        CASE text[i] = "&" -> "&amp;"
          [] text[i] = "<" -> "&lt;"
          [] text[i] = ">" -> "&gt;"
          [] text[i] = "'" -> "&#x27;"
          [] OTHER -> text[i]]

\* a variant of lines 64-67 that knows the plain suffixes only
tag_of_chunk_PlainSuffixes(chunk, attrs) ==
    IF endswith(chunk["name"], <<".", "j", "s">>)
    THEN <<[tag |-> "script", url |-> conditional_escape(chunk["__url__"]),
            attrs |-> conditional_escape(attrs)]>>
    ELSE IF endswith(chunk["name"], <<".", "c", "s", "s">>)
    THEN <<[tag |-> "link", url |-> conditional_escape(chunk["__url__"]),
            attrs |-> conditional_escape(attrs)]>>
    ELSE << >>

\* utils.get_as_tags, lines 64-67: the tags one chunk gives (one or none)
tag_of_chunk(chunk, attrs) ==
    IF \/ endswith(chunk["name"], <<".", "j", "s">>)
       \/ endswith(chunk["name"], <<".", "j", "s", ".", "g", "z">>)
    THEN <<[tag |-> "script", url |-> conditional_escape(chunk["__url__"]),
            attrs |-> conditional_escape(attrs)]>>
    ELSE IF \/ endswith(chunk["name"], <<".", "c", "s", "s">>)
            \/ endswith(chunk["name"], <<".", "c", "s", "s", ".", "g", "z">>)
    THEN <<[tag |-> "link", url |-> conditional_escape(chunk["__url__"]),
            attrs |-> conditional_escape(attrs)]>>
    ELSE << >>

\* utils._get_bundle, lines 34-40: the filter on the chunks of the generator
utils_get_bundle(extension, chunk) ==
    extension = None \/ endswith(chunk["name"], <<".">> \o extension[1])

\* utils.get_as_tags, lines 63-67: the loop body, run on a chunk the generator
\* has yielded
get_as_tags(m, chunk) ==
    IF utils_get_bundle(m.k.op.extension, chunk)
    THEN [m EXCEPT !.k.tags = @ \o tag_of_chunk(chunk, m.k.op.attrs)]
    ELSE m

\* get_bundle, line 199: yield chunk, to the consumer of the generator
yield(m, chunk) ==
    LET m2 == [m EXCEPT !.k.yielded = Append(@, chunk)]
    IN IF m.k.op.fn = "get_as_tags" THEN get_as_tags(m2, chunk) ELSE m2

\* get_bundle, line 191: the for loop takes its next chunk name, or ends
get_bundle_iterate(m) ==
    LET f == Top(m)
    IN IF f.todo = << >>
       THEN Returned(m)
       ELSE call_get_chunk_from_name(SetTop(m, [f EXCEPT !.line = 192]), Head(f.todo))

\* get_bundle, lines 192-199: get_chunk_from_name returned chunk, an element
\* of the manifest get_assets handed out (the cache entry, with CACHE on)
get_bundle_chunk(m, chunk, chunk_name) ==
    LET f == Top(m)
        cfg == Config(m)
        name == m.k.op.name
        compute == ShouldResolve(cfg, chunk, chunk_name)
    IN IF compute /\ "publicPath" \notin DOMAIN chunk /\ "name" \notin DOMAIN chunk
       THEN Raise(m, "KeyError", <<"name">>)
       ELSE LET chunk2 == IF compute
                          THEN ("__url__" :> get_chunk_url(cfg, chunk)) @@ chunk
                          ELSE chunk
                cls2 == IF compute /\ cfg.CACHE
                        THEN [m.cls EXCEPT !["_assets"][name]["assets"][chunk_name] = chunk2]
                        ELSE m.cls
                m1 == [m EXCEPT !.cls = cls2,
                                !.k.resolved = IF compute
                                               THEN Append(@, chunk_name) ELSE @]
                m2 == IF "__url__" \in DOMAIN chunk2 THEN yield(m1, chunk2) ELSE m1
            IN get_bundle_iterate(SetTop(m2, [f EXCEPT !.todo = Tail(@), !.line = 191]))

\* get_bundle, lines 189-213: after the polling
get_bundle_resolve(m) ==
    LET f == Top(m)
        assets == f.assets[1]
    IN IF assets.status = "done"
       THEN IF "chunks" \in DOMAIN assets /\ f.bundle_name \in DOMAIN assets.chunks
            THEN get_bundle_iterate(
                     SetTop(Take(m, assets),
                            [f EXCEPT !.todo = assets.chunks[f.bundle_name],
                                      !.line = 191]))
            ELSE Raise(SetTop(m, [f EXCEPT !.line = 191]), "KeyError", <<f.bundle_name>>)
       ELSE call_raise_error_from_stats(SetTop(m, [f EXCEPT !.line = 207]))

\* get_bundle, lines 173-187: the loop condition, and what follows the loop
get_bundle_poll(m) ==
    LET f == Top(m)
        assets == f.assets[1]
    IN IF ~f.timed_out /\ assets.status \in {"initialization", "compile"}
       THEN SetTop(m, [f EXCEPT !.line = 175])
       ELSE IF f.timed_out
       THEN Raise(m, "WebpackLoaderTimeoutError",
                  <<"Timed Out. Bundle ", f.bundle_name, " took more than ",
                    ToString(Config(m).TIMEOUT[1]), " seconds to compile.">>)
       ELSE get_bundle_resolve(m)

\* get_bundle, lines 164-171: the first get_assets() returned assets at time t
get_bundle_start(m, assets, t) ==
    LET f == Top(m)
    IN IF Config(m).TIMEOUT # None
       THEN get_bundle_poll(SetTop([m EXCEPT !.k.poll_start = Some(t)],
                                   [f EXCEPT !.assets = Some(assets),
                                             !.timed_out = FALSE,
                                             !.start_time = t]))
       ELSE get_bundle_resolve(SetTop(m, [f EXCEPT !.assets = Some(assets)]))

\* get_bundle, lines 175-179: the sleep has ended at time t
get_bundle_sleep(m, t) ==
    LET f == Top(m)
        timeout == Config(m).TIMEOUT[1]
        timed_out == f.timed_out \/ (timeout > 0 /\ t - timeout > f.start_time)
    IN call_get_assets(
           SetTop([m EXCEPT !.k.sleeps = @ + 1],
                  [f EXCEPT !.timed_out = timed_out, !.line = 179]),
           TRUE, TRUE)

\* raise_error_from_stats, lines 146-155, with assets the value its
\* get_assets() call returned; when it returns, its caller goes on: get_assets
\* at line 114, get_bundle at line 209
raise_error_from_stats(m, assets) ==
    IF assets.status \in {"initialization", "compile"}
    THEN Raise(m, "WebpackError",
               <<"Error in webpack '",
                 Get(assets, "error", "Webpack has not finished compiling"), "': ",
                 "Webpack is either not running or still compiling the bundle">>)
    ELSE IF assets.status = "error"
    THEN Raise(m, "WebpackError",
               <<"Error in webpack '", Get(assets, "error", "Unknown Error"), "': ",
                 Get(assets, "message", "")>>)
    ELSE LET m1 == Pop(m)
             g == Top(m1)
         IN IF g.fn = "get_assets"
            THEN Raise(m1, "WebpackLoaderBadStatsError",
                       <<"Tried to access webpack stats ", m.k.op.name,
                         ", but it has status ", g.assets[1].status>>)
            ELSE Raise(m1, "WebpackLoaderBadStatsError",
                       <<"The stats file does not contain valid data.">>)

\* get_chunk_from_name, lines 127-130, with assets the value get_assets returned
get_chunk_from_name(m, assets) ==
    LET chunk_name == Top(m).chunk_name
        table == Get(assets, "assets", << >>)
    IN IF chunk_name \in DOMAIN table
       THEN get_bundle_chunk(Take(Pop(m), assets), table[chunk_name], chunk_name)
       ELSE Raise(m, "KeyError", <<chunk_name>>)

\* utils.get_static (utils.py line 79), with assets the value get_assets returned
get_static(m, assets) ==
    Returned([Take(m, assets) EXCEPT !.k.retval =
                 Some(Get(assets, "publicPath", STATIC_URL) \o Top(m).asset_name)])

\* get_assets returns assets to the frame below it, at time t
get_assets_return(m, assets, t) ==
    IF m.k.stack = << >>
    THEN Returned([m EXCEPT !.k.retval = Some(assets)])
    ELSE LET f == Top(m)
         IN CASE f.fn = "raise_error_from_stats" -> raise_error_from_stats(m, assets)
              [] f.fn = "get_chunk_from_name" -> get_chunk_from_name(m, assets)
              [] f.fn = "get_static" -> get_static(m, assets)
              [] f.fn = "get_bundle" /\ f.line = 164 -> get_bundle_start(m, assets, t)
              [] f.fn = "get_bundle" /\ f.line = 179 ->
                    get_bundle_poll(SetTop(m, [f EXCEPT !.assets = Some(assets)]))

\* a variant of lines 109-120 without the compiled check
get_assets_check_Unchecked(m, assets, t) == get_assets_return(Pop(m), assets, t)

\* get_assets, lines 109-120: the compiled check on the manifest it obtained
get_assets_check(m, assets, t) ==
    LET f == Top(m)
    IN IF f.compiled /\ assets.status # "done"
       THEN call_raise_error_from_stats(
                SetTop(m, [f EXCEPT !.assets = Some(assets), !.line = 112]))
       ELSE get_assets_return(Pop(m), assets, t)

\* a variant of line 94 that takes the cache branch whatever CACHE says
UseCache_Always(cfg) == TRUE

\* self.config['CACHE'] (line 94)
UseCache(cfg) == cfg.CACHE

\* line 99: the cache has no entry for the name, or the reload is forced
MustLoad(cache, name, replace_cache) == name \notin DOMAIN cache \/ replace_cache

\* get_assets, lines 91-120, run from its entry with the stats file as it is
get_assets(m, file, t) ==
    LET f == Top(m)
        name == m.k.op.name
        m0 == [m EXCEPT !.k.ngets = @ + 1,
                        !.k.forced = IF f.replace_cache THEN @ + 1 ELSE @]
        loaded == [m0 EXCEPT !.k.reads = Append(@, load_assets(file))]
    IN IF UseCache(Config(m))
       THEN IF ~HasGlobalCache(m.cls)
            THEN Raise(m0, "AttributeError",
                       <<"type object 'WebpackLoader' has no attribute '_assets'">>)
            ELSE LET cache == global_cache(m.cls)
                 IN IF MustLoad(cache, name, f.replace_cache)
                    THEN get_assets_check(
                             [loaded EXCEPT !.cls =
                                 ("_assets" :> ((name :> load_assets(file)) @@ cache)) @@ @],
                             load_assets(file), t)
                    ELSE get_assets_check(m0, cache[name], t)
       ELSE get_assets_check(loaded, load_assets(file), t)

------------------------------------------------------------------------------
(* The system: request threads calling the public entry points, and the    *)
(* build tool rewriting the stats file.                                    *)

Init ==
    /\ stats_file \in Manifests
    /\ writes = 0
    /\ cls_dict = WebpackLoader_class
    /\ now = 0
    /\ settings \in {("WEBPACK_LOADER" :> W) : W \in WEBPACK_LOADER_settings}
    /\ LOADED_CONFIG = import_config(settings)
    /\ th = [t \in Threads |-> IdleThread]

\* what the thread keeps of the call before, when that resolved a bundle: the
\* call, how it ended, what it yielded and the manifests it read
Summary(k) ==
    [op |-> k.op, status |-> k.status, exc |-> k.exc, yielded |-> k.yielded,
     reads |-> Range(k.reads), resolved |-> k.resolved]

\* the thread starts the call op
Begin(k, op) ==
    [IdleThread EXCEPT !.status = "running", !.op = op,
                       !.prev = IF k.op.fn = "get_bundle" THEN Some(Summary(k)) ELSE None]

CanCall(t) == th[t].status \in {"idle", "returned", "raised"}

Machine(k) == [k |-> k, cls |-> cls_dict]

\* list(get_loader(name).get_bundle(bundle_name)) (utils.py lines 32, 46):
\* the generator runs from line 157 to its get_assets() call of line 164
CallGetBundle(t, name, bundle_name) ==
    /\ CanCall(t)
    /\ LET k == Begin(th[t], [NoOp EXCEPT !.fn = "get_bundle", !.name = name,
                                          !.bundle_name = bundle_name])
           m == call_get_assets(
                    Call(Machine(k),
                         [Frame("get_bundle", 164) EXCEPT !.bundle_name = bundle_name]),
                    TRUE, FALSE)
       IN th' = [th EXCEPT ![t] = m.k]
    /\ UNCHANGED <<stats_file, writes, cls_dict, now, settings, LOADED_CONFIG>>

\* utils.get_static(asset_name, name), up to its get_assets() call (line 79)
CallGetStatic(t, name, asset_name) ==
    /\ CanCall(t)
    /\ LET k == Begin(th[t], [NoOp EXCEPT !.fn = "get_static", !.name = name,
                                          !.asset_name = asset_name])
           m == call_get_assets(
                    Call(Machine(k),
                         [Frame("get_static", 79) EXCEPT !.asset_name = asset_name]),
                    TRUE, FALSE)
       IN th' = [th EXCEPT ![t] = m.k]
    /\ UNCHANGED <<stats_file, writes, cls_dict, now, settings, LOADED_CONFIG>>

\* list(utils.get_as_tags(bundle_name, extension, name, attrs)) (utils.py lines
\* 49-67): _get_bundle creates the generator, which runs to line 164
CallGetAsTags(t, name, bundle_name, extension, attrs) ==
    /\ CanCall(t)
    /\ LET k == Begin(th[t], [NoOp EXCEPT !.fn = "get_as_tags", !.name = name,
                                          !.bundle_name = bundle_name,
                                          !.extension = extension,
                                          !.attrs = attrs])
           m == call_get_assets(
                    Call(Machine(k),
                         [Frame("get_bundle", 164) EXCEPT !.bundle_name = bundle_name]),
                    TRUE, FALSE)
       IN th' = [th EXCEPT ![t] = m.k]
    /\ UNCHANGED <<stats_file, writes, cls_dict, now, settings, LOADED_CONFIG>>

\* get_loader(name).get_assets(compiled, replace_cache), called directly
CallGetAssets(t, name, compiled, replace_cache) ==
    /\ CanCall(t)
    /\ LET k == Begin(th[t], [NoOp EXCEPT !.fn = "get_assets", !.name = name])
           m == call_get_assets(Machine(k), compiled, replace_cache)
       IN th' = [th EXCEPT ![t] = m.k]
    /\ UNCHANGED <<stats_file, writes, cls_dict, now, settings, LOADED_CONFIG>>

\* the thread runs on from where it is suspended, up to its next suspension:
\* from the entry of get_assets with the cache and the stats file as they are
\* now, or out of time.sleep(interval_time) once at least the interval has passed
Resume(t) ==
    /\ th[t].status = "running"
    /\ LET m == Machine(th[t])
           f == Top(m)
       IN IF f.fn = "get_assets"
          THEN LET m2 == get_assets(m, stats_file, now)
               IN /\ th' = [th EXCEPT ![t] = m2.k]
                  /\ cls_dict' = m2.cls
                  /\ now' = now
          ELSE \E lag \in 0..1 :
                   LET t2 == now + Config(m).POLL_INTERVAL + lag
                       m2 == get_bundle_sleep(m, t2)
                   IN /\ t2 <= MaxTime
                      /\ th' = [th EXCEPT ![t] = m2.k]
                      /\ cls_dict' = m2.cls
                      /\ now' = t2
    /\ UNCHANGED <<stats_file, writes, settings, LOADED_CONFIG>>

\* what the build tool may write next: a build starts (compile) or ends (done
\* or error); a reader may miss the compile phase between two done manifests
Rewrites(file) ==
    IF file.status = "initialization" THEN {MCompile}
    ELSE IF file.status = "compile" THEN {MDone, MDone2, MError}
    ELSE {MCompile, MDone, MDone2} \ {file}

\* webpack-bundle-tracker rewrites the stats file
WebpackWrites(file) ==
    /\ writes < MaxWrites
    /\ file \in Rewrites(stats_file)
    /\ stats_file' = file
    /\ writes' = writes + 1
    /\ UNCHANGED <<cls_dict, now, settings, LOADED_CONFIG, th>>

Next ==
    \/ \E t \in Threads, name \in DOMAIN LOADED_CONFIG, b \in Bundles :
           CallGetBundle(t, name, b)
    \/ \E t \in Threads, name \in DOMAIN LOADED_CONFIG : CallGetStatic(t, name, A_JS)
    \/ \E t \in Threads, name \in DOMAIN LOADED_CONFIG, c \in BOOLEAN, r \in BOOLEAN :
           CallGetAssets(t, name, c, r)
    \/ \E t \in Threads : Resume(t)
    \/ \E file \in Manifests : WebpackWrites(file)

Spec == Init /\ [][Next]_vars

------------------------------------------------------------------------------
(* Properties.  A call has ended when its thread has status "returned" or  *)
(* "raised"; th[t].reads lists the manifests load_assets gave the call.    *)

Ended(t) == th[t].status \in {"returned", "raised"}
EndedBundle(t) == Ended(t) /\ th[t].op.fn = "get_bundle"
Cfg(t) == load_config(th[t].op.name)

\* every read of the call returned the same manifest
SameManifest(t) ==
    /\ th[t].reads # << >>
    /\ \A i \in DOMAIN th[t].reads : th[t].reads[i] = th[t].reads[1]

\* the stats file has held the same 'done' manifest since the process started
FileStaysDone == writes = 0 /\ stats_file.status = "done"

\* the bundle is declared in the stats file and each of its chunks is an asset
Resolvable(file, b) ==
    /\ "chunks" \in DOMAIN file
    /\ b \in DOMAIN file.chunks
    /\ \A c \in Range(file.chunks[b]) : c \in DOMAIN Get(file, "assets", << >>)

NamesOf(chunks) == [i \in DOMAIN chunks |-> chunks[i]["name"]]
UrlsOf(chunks) == [i \in DOMAIN chunks |-> chunks[i]["__url__"]]

\* the chunk names of a list that no ignore pattern of cfg matches
Kept(cfg, names) == SelectSeq(names, LAMBDA c : ~Ignored(cfg, c))

\* C1: when the manifest get_bundle obtains has status 'error' with error E
\* and message M (every read of the call returns it), the call fails with
\* WebpackError and the text of the error contains E and M, whatever CACHE and
\* TIMEOUT are.
C1_BuildErrorRaised ==
    \A t \in Threads :
        (EndedBundle(t) /\ SameManifest(t) /\ th[t].reads[1].status = "error")
        => /\ th[t].status = "raised"
           /\ th[t].exc = "WebpackError"
           /\ th[t].reads[1].error \in Range(th[t].msg)
           /\ th[t].reads[1].message \in Range(th[t].msg)

\* C2: with a positive TIMEOUT T, a get_bundle call whose every read of the
\* manifest returned 'initialization' or 'compile' ends with
\* WebpackLoaderTimeoutError, more than T after its poll loop started.
C2_TimeoutRaised ==
    \A t \in Threads :
        (/\ EndedBundle(t)
         /\ Cfg(t).TIMEOUT # None /\ Cfg(t).TIMEOUT[1] > 0
         /\ th[t].reads # << >>
         /\ \A i \in DOMAIN th[t].reads :
                th[t].reads[i].status \in {"initialization", "compile"})
        => /\ th[t].status = "raised"
           /\ th[t].exc = "WebpackLoaderTimeoutError"
           /\ th[t].poll_start # None
           /\ now - th[t].poll_start[1] > Cfg(t).TIMEOUT[1]

\* C3: with a positive TIMEOUT, a get_bundle call whose first n reads returned
\* 'compile' and whose later reads returned the 'done' manifest, n poll
\* intervals fitting in the timeout, returns the chunks of the bundle.
C3_SucceedsOnceCompiled ==
    \A t \in Threads :
        (/\ EndedBundle(t)
         /\ th[t].op.bundle_name = "main"
         /\ Cfg(t).TIMEOUT # None /\ Cfg(t).TIMEOUT[1] > 0
         /\ \E n \in 1..(Len(th[t].reads) - 1) :
                /\ n * Cfg(t).POLL_INTERVAL <= Cfg(t).TIMEOUT[1]
                /\ \A i \in 1..n : th[t].reads[i] = MCompile
                /\ \A i \in (n + 1)..Len(th[t].reads) : th[t].reads[i] = MDone)
        => /\ th[t].status = "returned"
           /\ NamesOf(th[t].yielded) = Kept(Cfg(t), MDone.chunks["main"])

\* C4: with TIMEOUT absent, a get_bundle call on a manifest of status
\* 'initialization' or 'compile' sleeps never, forces no reread, and fails with
\* WebpackLoaderBadStatsError naming the status.
C4_BadStatsWithoutPolling ==
    \A t \in Threads :
        (/\ EndedBundle(t)
         /\ Cfg(t).TIMEOUT = None
         /\ SameManifest(t)
         /\ th[t].reads[1].status \in {"initialization", "compile"})
        => /\ th[t].sleeps = 0
           /\ th[t].forced = 0
           /\ th[t].status = "raised"
           /\ th[t].exc = "WebpackLoaderBadStatsError"
           /\ th[t].reads[1].status \in Range(th[t].msg)

\* C5: for a 'done' manifest the sequence get_bundle returns is the declared
\* chunk-name list of the bundle without the chunks that got no URL (those an
\* ignore pattern matches), in the declared order and with its duplicates; an
\* empty list gives an empty result and no error.
C5_DeclaredOrder ==
    \A t \in Threads :
        (EndedBundle(t) /\ FileStaysDone /\ Resolvable(stats_file, th[t].op.bundle_name))
        => /\ th[t].status = "returned"
           /\ NamesOf(th[t].yielded)
                  = Kept(Cfg(t), stats_file.chunks[th[t].op.bundle_name])
           /\ \A i \in DOMAIN th[t].yielded : "__url__" \in DOMAIN th[t].yielded[i]

\* C5, with CACHE off (the part of C5 the code keeps)
C5_DeclaredOrder_CacheOff ==
    \A t \in Threads :
        (/\ EndedBundle(t) /\ ~Cfg(t).CACHE /\ FileStaysDone
         /\ Resolvable(stats_file, th[t].op.bundle_name))
        => /\ th[t].status = "returned"
           /\ NamesOf(th[t].yielded)
                  = Kept(Cfg(t), stats_file.chunks[th[t].op.bundle_name])
           /\ \A i \in DOMAIN th[t].yielded : "__url__" \in DOMAIN th[t].yielded[i]

\* C6: a chunk whose name an ignore pattern of the configuration matches is
\* never among the chunks get_bundle yields, in this call or any call before
\* it, with or without a public path; and a call that fails while its loop is at
\* such a chunk, the manifest being the same at every read, fails because the
\* manifest has no asset of that name, not because of the chunk.
C6_IgnoredNeverYielded ==
    \A t \in Threads :
        th[t].status # "idle"
        => /\ \A i \in DOMAIN th[t].yielded :
                  ~Ignored(Cfg(t), th[t].yielded[i]["name"])
           /\ th[t].prev # None
                  => \A i \in DOMAIN th[t].prev[1].yielded :
                         ~Ignored(load_config(th[t].prev[1].op.name),
                                  th[t].prev[1].yielded[i]["name"])
           /\ (/\ th[t].status = "raised" /\ th[t].at # None
               /\ Ignored(Cfg(t), th[t].at[1]) /\ SameManifest(t))
                  => th[t].at[1] \notin DOMAIN Get(th[t].reads[1], "assets", << >>)

\* C6 witness: a second resolution of main has returned chunks; main lists
\* m.map, which has a public path and which an ignore pattern matches
C6_Witness ==
    \E t \in Threads :
        /\ th[t].status = "returned" /\ th[t].op.fn = "get_bundle"
        /\ th[t].op.bundle_name = "main"
        /\ th[t].prev # None /\ th[t].prev[1].status = "returned"
        /\ th[t].prev[1].op.bundle_name = "main"
        /\ SameManifest(t) /\ th[t].reads[1] = MDone
        /\ Ignored(Cfg(t), M_MAP)
        /\ "publicPath" \in DOMAIN MDone.assets[M_MAP]
        /\ th[t].yielded # << >>

\* C7: two consecutive get_bundle calls for the same bundle on an unchanged
\* 'done' manifest both return, with the same chunk names and URLs, with CACHE
\* on and with CACHE off.
C7_SameResultTwice ==
    \A t \in Threads :
        (/\ EndedBundle(t) /\ th[t].prev # None /\ th[t].prev[1].op = th[t].op
         /\ FileStaysDone /\ Resolvable(stats_file, th[t].op.bundle_name))
        => /\ th[t].status = "returned" /\ th[t].prev[1].status = "returned"
           /\ NamesOf(th[t].yielded) = NamesOf(th[t].prev[1].yielded)
           /\ UrlsOf(th[t].yielded) = UrlsOf(th[t].prev[1].yielded)

\* C7, with CACHE off (the part of C7 the code keeps)
C7_SameResultTwice_CacheOff ==
    \A t \in Threads :
        (/\ EndedBundle(t) /\ ~Cfg(t).CACHE
         /\ th[t].prev # None /\ th[t].prev[1].op = th[t].op
         /\ FileStaysDone /\ Resolvable(stats_file, th[t].op.bundle_name))
        => /\ th[t].status = "returned" /\ th[t].prev[1].status = "returned"
           /\ NamesOf(th[t].yielded) = NamesOf(th[t].prev[1].yielded)
           /\ UrlsOf(th[t].yielded) = UrlsOf(th[t].prev[1].yielded)

\* C8: on a 'done' manifest, get_bundle for a bundle that 'chunks' does not
\* declare, or that lists a chunk name 'assets' does not have (either map may
\* be missing), fails with WebpackBundleLookupError and with nothing else.
C8_LookupErrorRaised ==
    \A t \in Threads :
        (EndedBundle(t) /\ FileStaysDone /\ ~Resolvable(stats_file, th[t].op.bundle_name))
        => th[t].status = "raised" /\ th[t].exc = "WebpackBundleLookupError"

\* C8, with CACHE off (the part of C8 the code keeps)
C8_LookupErrorRaised_CacheOff ==
    \A t \in Threads :
        (/\ EndedBundle(t) /\ ~Cfg(t).CACHE /\ FileStaysDone
         /\ ~Resolvable(stats_file, th[t].op.bundle_name))
        => th[t].status = "raised" /\ th[t].exc = "WebpackBundleLookupError"

\* the configuration name has an entry in the process-wide cache
HasEntry(cls, name) == HasGlobalCache(cls) /\ name \in DOMAIN global_cache(cls)

\* two manifests that differ at most in memoized __url__ fields
SameButUrls(a, b) ==
    /\ a.status = b.status
    /\ Get(a, "chunks", << >>) = Get(b, "chunks", << >>)
    /\ DOMAIN Get(a, "assets", << >>) = DOMAIN Get(b, "assets", << >>)

\* C9: with CACHE on, a get_assets call loads the manifest exactly when the
\* configuration name has no cache entry or replace_cache is set, and the entry
\* is then the manifest just loaded; otherwise nothing is loaded and the entry
\* stays; an entry is never removed.
C9_CacheProtocol ==
    [][\A t \in Threads :
         (/\ th[t].status = "running"
          /\ Top(Machine(th[t])).fn = "get_assets"
          /\ Cfg(t).CACHE
          /\ th'[t] # th[t])
         => LET name == th[t].op.name
                had == HasEntry(cls_dict, name)
                loads == Len(th'[t].reads) - Len(th[t].reads)
            IN /\ HasEntry(cls_dict', name)
               /\ IF ~had \/ Top(Machine(th[t])).replace_cache
                  THEN /\ loads = 1
                       /\ SameButUrls(global_cache(cls_dict')[name], stats_file)
                  ELSE /\ loads = 0
                       /\ SameButUrls(global_cache(cls_dict')[name],
                                      global_cache(cls_dict)[name])]_vars

\* C10: with CACHE off for the configuration, every get_assets call of every
\* operation on it loads the manifest afresh (as many loads as calls), and the
\* class namespace that holds the process-wide cache stays as it was.
C10_CacheBypassed ==
    \A t \in Threads :
        (th[t].status # "idle" /\ ~Cfg(t).CACHE)
        => /\ Len(th[t].reads) = th[t].ngets
           /\ cls_dict = WebpackLoader_class

\* C10 witness: with CACHE off a get_bundle call has returned chunks after
\* several get_assets calls, following an earlier call of the thread
C10_Witness ==
    \E t \in Threads :
        /\ th[t].status = "returned" /\ th[t].op.fn = "get_bundle"
        /\ ~Cfg(t).CACHE
        /\ th[t].prev # None
        /\ th[t].ngets >= 3 /\ Len(th[t].yielded) >= 2

------------------------------------------------------------------------------
(* Concurrent requests on cache-enabled configurations: two request        *)
(* threads of one process share the class namespace and the stats file.    *)

ConcurrentThreads == {"t1", "t2"}

\* the override records that leave CACHE at its default (not settings.DEBUG)
CachedOverrides == {o \in Overrides : "CACHE" \notin DOMAIN o}

InitConcurrent ==
    /\ stats_file \in {MCompile, MDone, MDone2}
    /\ writes = 0
    /\ cls_dict = WebpackLoader_class
    /\ now = 0
    /\ settings \in {("WEBPACK_LOADER" :> ("DEFAULT" :> o)) : o \in CachedOverrides}
    /\ LOADED_CONFIG = import_config(settings)
    /\ th = [t \in ConcurrentThreads |-> IdleThread]

\* requests resolve bundles, one may force a reread (get_assets with
\* replace_cache=True, as line 179 does), and the build tool rewrites the file
NextConcurrent ==
    \/ \E t \in ConcurrentThreads, name \in DOMAIN LOADED_CONFIG, b \in {"main", "broken"} :
           CallGetBundle(t, name, b)
    \/ \E t \in ConcurrentThreads, name \in DOMAIN LOADED_CONFIG :
           CallGetAssets(t, name, TRUE, TRUE)
    \/ \E t \in ConcurrentThreads : Resume(t)
    \/ \E file \in Manifests : WebpackWrites(file)

SpecConcurrent == InitConcurrent /\ [][NextConcurrent]_vars

\* the chunks a call yielded are the resolution of bundle b against manifest M
\* alone: its chunk list without the ignored names, each chunk the asset of M
FromOneManifest(k, cfg, M) ==
    /\ "chunks" \in DOMAIN M /\ k.op.bundle_name \in DOMAIN M.chunks
    /\ NamesOf(k.yielded) = Kept(cfg, M.chunks[k.op.bundle_name])
    /\ \A i \in DOMAIN k.yielded :
           LET chunk == k.yielded[i]
               c == chunk["name"]
           IN /\ c \in DOMAIN Get(M, "assets", << >>)
              /\ [key \in DOMAIN chunk \ {"__url__"} |-> chunk[key]] = M.assets[c]

\* C11: while other requests are active on the same cache-enabled
\* configuration, under every interleaving, a get_bundle request that has ended
\* has failed with an error of the taxonomy or has returned chunks that all
\* come from one manifest version.
C11_ConcurrentCacheSafe ==
    \A t \in DOMAIN th :
        (/\ EndedBundle(t) /\ Cfg(t).CACHE
         /\ \E u \in DOMAIN th \ {t} : th[u].status # "idle")
        => \/ th[t].status = "raised" /\ th[t].exc \in Taxonomy
           \/ /\ th[t].status = "returned"
              /\ \E M \in Manifests : FromOneManifest(th[t], Cfg(t), M)

\* the manifest is still being built
Pending(M) == M.status \in {"initialization", "compile"}

\* C12: with TIMEOUT zero a get_bundle call never fails with
\* WebpackLoaderTimeoutError; it does not end while every manifest it read was
\* 'initialization' or 'compile' (it keeps sleeping and rereading); and when its
\* first reads were pending and its later reads the 'done' manifest, it has
\* returned the chunks of the bundle.
C12_PollsWithoutBound ==
    \A t \in Threads :
        (/\ th[t].status # "idle" /\ th[t].op.fn = "get_bundle"
         /\ Cfg(t).TIMEOUT = Some(0))
        => /\ th[t].exc # "WebpackLoaderTimeoutError"
           /\ ~(/\ Ended(t) /\ th[t].reads # << >>
                /\ \A i \in DOMAIN th[t].reads : Pending(th[t].reads[i]))
           /\ (/\ Ended(t) /\ th[t].op.bundle_name = "main"
               /\ \E n \in 1..(Len(th[t].reads) - 1) :
                      /\ \A i \in 1..n : Pending(th[t].reads[i])
                      /\ \A i \in (n + 1)..Len(th[t].reads) : th[t].reads[i] = MDone)
                  => /\ th[t].status = "returned"
                     /\ NamesOf(th[t].yielded) = Kept(Cfg(t), MDone.chunks["main"])

\* C13: get_bundle and get_static take bundle contents (the chunk list, a
\* chunk asset, the public path) only out of a manifest of status 'done'; a call
\* that has returned read only 'done' manifests; and a call whose every read
\* returned one manifest of another status has ended in an error, with no chunk
\* yielded and no value returned.
C13_OnlyDoneQueried ==
    \A t \in Threads :
        (th[t].status # "idle" /\ th[t].op.fn \in {"get_bundle", "get_static"})
        => /\ \A i \in DOMAIN th[t].taken : th[t].taken[i] = "done"
           /\ (th[t].yielded # << >> \/ th[t].retval # None) => th[t].taken # << >>
           /\ th[t].status = "returned"
                  => /\ th[t].reads # << >>
                     /\ \A i \in DOMAIN th[t].reads : th[t].reads[i].status = "done"
           /\ (Ended(t) /\ SameManifest(t) /\ th[t].reads[1].status # "done")
                  => /\ th[t].status = "raised"
                     /\ th[t].yielded = << >> /\ th[t].retval = None

\* C13 witness: a get_bundle call has returned chunks of a 'done' manifest
\* after a call of the thread that read a manifest of another status and failed
C13_Witness ==
    \E t \in Threads :
        /\ th[t].status = "returned" /\ th[t].op.fn = "get_bundle"
        /\ Len(th[t].yielded) >= 2
        /\ th[t].prev # None /\ th[t].prev[1].status = "raised"
        /\ \E M \in th[t].prev[1].reads : M.status # "done"
        /\ th[t].prev[1].yielded = << >>

\* the URL the claim gives a chunk: its public path, or the static URL of
\* BUNDLE_DIR_NAME + name
ExpectedUrl(cfg, chunk) ==
    IF "publicPath" \in DOMAIN chunk
    THEN chunk["publicPath"]
    ELSE STATIC_URL \o cfg.BUNDLE_DIR_NAME \o chunk["name"]

\* C14, its first half: the URL of every yielded chunk is the expected one
C14_ChunkUrl ==
    \A t \in Threads :
        (th[t].status # "idle" /\ th[t].op.fn = "get_bundle")
        => \A i \in DOMAIN th[t].yielded :
               th[t].yielded[i]["__url__"] = ExpectedUrl(Cfg(t), th[t].yielded[i])

\* C14: the URL of a yielded chunk is its public path if it has one and the
\* static URL of BUNDLE_DIR_NAME + name otherwise; and with CACHE on and the
\* 'done' manifest unchanged, a get_bundle call that has ended computed the URL
\* of no chunk twice, left the URL of every chunk of the bundle that is not
\* ignored memoized in the cached manifest, and computed none at all if the
\* call before it resolved the same bundle.
C14_UrlMemoized ==
    \A t \in Threads :
        (th[t].status # "idle" /\ th[t].op.fn = "get_bundle")
        => /\ \A i \in DOMAIN th[t].yielded :
                  th[t].yielded[i]["__url__"] = ExpectedUrl(Cfg(t), th[t].yielded[i])
           /\ (/\ Ended(t) /\ Cfg(t).CACHE /\ FileStaysDone
               /\ Resolvable(stats_file, th[t].op.bundle_name))
                  => /\ \A i, j \in DOMAIN th[t].resolved :
                            th[t].resolved[i] = th[t].resolved[j] => i = j
                     /\ HasEntry(cls_dict, th[t].op.name)
                     /\ \A c \in Range(Kept(Cfg(t), stats_file.chunks[th[t].op.bundle_name])) :
                            "__url__" \in DOMAIN global_cache(cls_dict)[th[t].op.name].assets[c]
                     /\ (th[t].prev # None /\ th[t].prev[1].op = th[t].op)
                            => th[t].resolved = << >>

------------------------------------------------------------------------------
(* The configuration module on its own: process_config and load_config     *)
(* under the settings a project may supply.                                *)

\* override records: each field omitted or set, 'ignores' included
ConfigOverrides ==
    { c @@ t @@ i @@ g @@ b :
        c \in {<< >>, ("CACHE" :> FALSE)},
        t \in {<< >>, ("TIMEOUT" :> Some(PosTimeout))},
        i \in {<< >>, ("IGNORE" :> << >>), ("IGNORE" :> <<RE_JS>>),
               ("IGNORE" :> <<RE_JS, RE_MAP>>)},
        g \in {<< >>, ("ignores" :> <<re_compile(RE_HOT)>>)},
        b \in {<< >>, ("BUNDLE_DIR_NAME" :> <<"dist/">>)} }

\* settings without WEBPACK_LOADER, with an empty map, with a map that has a
\* DEFAULT entry, and with maps that name another configuration
ConfigSettings ==
    {<< >>, ("WEBPACK_LOADER" :> << >>)}
    \cup {("WEBPACK_LOADER" :> ("DEFAULT" :> o)) : o \in ConfigOverrides}
    \cup {("WEBPACK_LOADER" :> ("OTHER" :> o)) : o \in ConfigOverrides}
    \cup {("WEBPACK_LOADER" :> (("DEFAULT" :> << >>) @@ ("OTHER" :> o))) :
            o \in {c \in ConfigOverrides : DOMAIN c \subseteq {"CACHE", "IGNORE"}}}

ConfigNames == {"DEFAULT", "OTHER", "missing"}

InitConfig ==
    /\ stats_file = MInit
    /\ writes = 0
    /\ cls_dict = WebpackLoader_class
    /\ now = 0
    /\ settings \in ConfigSettings
    /\ LOADED_CONFIG = import_config(settings)
    /\ th = [t \in Threads |-> IdleThread]

\* process_config(cfg), called on an override record
CallProcessConfig(t, cfg) ==
    /\ CanCall(t)
    /\ th' = [th EXCEPT ![t] =
                 [Begin(th[t], [NoOp EXCEPT !.fn = "process_config", !.cfg = cfg])
                      EXCEPT !.status = "returned",
                             !.retval = Some(process_config(cfg))]]
    /\ UNCHANGED <<stats_file, writes, cls_dict, now, settings, LOADED_CONFIG>>

\* load_config(name): LOADED_CONFIG[name], or the KeyError of the subscript
CallLoadConfig(t, name) ==
    /\ CanCall(t)
    /\ LET k == Begin(th[t], [NoOp EXCEPT !.fn = "load_config", !.name = name])
       IN th' = [th EXCEPT ![t] =
                     IF name \in DOMAIN LOADED_CONFIG
                     THEN [k EXCEPT !.status = "returned",
                                    !.retval = Some(load_config(name))]
                     ELSE [k EXCEPT !.status = "raised", !.exc = "KeyError",
                                    !.msg = <<name>>]]
    /\ UNCHANGED <<stats_file, writes, cls_dict, now, settings, LOADED_CONFIG>>

NextConfig ==
    \/ \E t \in Threads, cfg \in ConfigOverrides : CallProcessConfig(t, cfg)
    \/ \E t \in Threads, name \in ConfigNames : CallLoadConfig(t, name)

SpecConfig == InitConfig /\ [][NextConfig]_vars

\* out is the total merge of the override record cfg into DEFAULT_CONFIG, with
\* 'ignores' rebuilt from the IGNORE list of the result
MergeOf(cfg, out) ==
    /\ DOMAIN out = DOMAIN DEFAULT_CONFIG \cup DOMAIN cfg
    /\ \A key \in DOMAIN out \ {"ignores"} :
           out[key] = IF key \in DOMAIN cfg THEN cfg[key] ELSE DEFAULT_CONFIG[key]
    /\ Len(out["ignores"]) = Len(out["IGNORE"])
    /\ \A i \in DOMAIN out["IGNORE"] : out["ignores"][i] = re_compile(out["IGNORE"][i])

\* the named-configuration map in force: settings.WEBPACK_LOADER, or
\* {'DEFAULT': {}} when the project sets none
SuppliedMap == Get(settings, "WEBPACK_LOADER", ("DEFAULT" :> << >>))

\* C15: the record process_config returns for an override record, and every
\* entry of LOADED_CONFIG, has each omitted field at the default's value, each
\* present field at the override's value, and 'ignores' rebuilt, one matcher
\* per pattern and in order, from the IGNORE list of the merge, also when the
\* override has an 'ignores' of its own.
C15_TotalMerge ==
    /\ \A t \in Threads :
           (th[t].status = "returned" /\ th[t].op.fn = "process_config")
           => MergeOf(th[t].op.cfg, th[t].retval[1])
    /\ \A name \in DOMAIN LOADED_CONFIG :
           /\ name \in DOMAIN SuppliedMap
           /\ MergeOf(SuppliedMap[name], LOADED_CONFIG[name])

\* C15 witness: process_config has returned for an override record that sets
\* IGNORE and an 'ignores' of its own and omits CACHE
C15_Witness ==
    \E t \in Threads :
        /\ th[t].status = "returned" /\ th[t].op.fn = "process_config"
        /\ {"IGNORE", "ignores", "BUNDLE_DIR_NAME"} \subseteq DOMAIN th[t].op.cfg
        /\ "CACHE" \notin DOMAIN th[t].op.cfg
        /\ Len(th[t].op.cfg["IGNORE"]) = 2
        /\ th[t].retval[1]["ignores"] # th[t].op.cfg["ignores"]

\* C16, as claimed: once the settings supply a named-configuration map,
\* load_config('DEFAULT') returns a configuration for every such map, also an
\* empty one and one that names other configurations only; and load_config of
\* a name with no entry fails with the error of a missing configuration.
C16_DefaultAlwaysLoads ==
    \A t \in Threads :
        (/\ Ended(t) /\ th[t].op.fn = "load_config"
         /\ "WEBPACK_LOADER" \in DOMAIN settings)
        => IF th[t].op.name = "DEFAULT" \/ th[t].op.name \in DOMAIN SuppliedMap
           THEN th[t].status = "returned"
           ELSE th[t].status = "raised" /\ th[t].exc = "KeyError"

\* C16, amended: load_config(name) returns the merged configuration of name
\* exactly when name has an entry in the map in force (the map the settings
\* supply, or {'DEFAULT': {}} when they supply none), so load_config('DEFAULT')
\* never fails when no map is supplied or the map has a DEFAULT entry, be it an
\* empty record; for every name with no entry in the map, 'DEFAULT' included,
\* it fails with KeyError.
C16_LoadsExactlyEntries ==
    \A t \in Threads :
        (Ended(t) /\ th[t].op.fn = "load_config")
        => IF th[t].op.name \in DOMAIN SuppliedMap
           THEN /\ th[t].status = "returned"
                /\ MergeOf(SuppliedMap[th[t].op.name], th[t].retval[1])
           ELSE /\ th[t].status = "raised" /\ th[t].exc = "KeyError"
                /\ th[t].retval = None

\* C16 witness: load_config('DEFAULT') has returned where the settings supply
\* no map at all
C16_Witness ==
    \E t \in Threads :
        /\ th[t].status = "returned" /\ th[t].op.fn = "load_config"
        /\ th[t].op.name = "DEFAULT"
        /\ "WEBPACK_LOADER" \notin DOMAIN settings
        /\ th[t].retval[1] = process_config(<< >>)

------------------------------------------------------------------------------
(* The tags of a bundle: utils.get_as_tags over the chunks get_bundle      *)
(* yields, with and without an extension filter.                           *)

\* a build with gzipped outputs and a source map that has a public path
MTags ==
    [status |-> "done",
     chunks |-> [main |-> <<A_JS, G_JS_GZ, M_MAP, B_CSS, H_CSS_GZ>>],
     assets |-> (A_JS  :> [name |-> A_JS])
             @@ (G_JS_GZ :> [name |-> G_JS_GZ])
             @@ (M_MAP :> [name |-> M_MAP, publicPath |-> <<"//cdn/">> \o M_MAP])
             @@ (B_CSS :> [name |-> B_CSS, publicPath |-> <<"//cdn/?v=1&f=">> \o B_CSS])
             @@ (H_CSS_GZ :> [name |-> H_CSS_GZ])]

\* the extension arguments: none, js, css, gz
Extensions == {None, Some(<<"j", "s">>), Some(<<"c", "s", "s">>), Some(<<"g", "z">>)}

\* the attrs arguments
Attrs == {<< >>, <<"async", " ", "data-x=", "'", "<", "&", ">", "'">>}

InitTags ==
    /\ stats_file \in {MTags, MDone, MCompile}
    /\ writes = 0
    /\ cls_dict = WebpackLoader_class
    /\ now = 0
    /\ settings \in {("WEBPACK_LOADER" :> ("DEFAULT" :> o)) :
                       o \in {c \in Overrides : "TIMEOUT" \notin DOMAIN c}}
    /\ LOADED_CONFIG = import_config(settings)
    /\ th = [t \in Threads |-> IdleThread]

NextTags ==
    \/ \E t \in Threads, name \in DOMAIN LOADED_CONFIG, b \in {"main", "broken"},
          extension \in Extensions, attrs \in Attrs :
           CallGetAsTags(t, name, b, extension, attrs)
    \/ \E t \in Threads : Resume(t)
    \/ \E file \in {MTags, MDone, MCompile} : WebpackWrites(file)

SpecTags == InitTags /\ [][NextTags]_vars

\* the name ends in one of the suffixes
HasSuffix(name, suffixes) ==
    \E p \in Range(suffixes), n \in 0..Len(name) : name = SubSeq(name, 1, n) \o p

IsScript(name) == HasSuffix(name, <<<<".", "j", "s">>, <<".", "j", "s", ".", "g", "z">>>>)
IsStyle(name) == HasSuffix(name, <<<<".", "c", "s", "s">>, <<".", "c", "s", "s", ".", "g", "z">>>>)

\* the chunks of a list that an extension filter lets through
Considered(chunks, extension) ==
    SelectSeq(chunks, LAMBDA c : extension = None
                                 \/ HasSuffix(c["name"], <<<<".">> \o extension[1]>>))

\* C17: the tags get_as_tags has emitted are, in chunk order, one script tag
\* for each considered chunk whose name ends in .js or .js.gz and one link tag
\* for each whose name ends in .css or .css.gz, each with the chunk's URL, and
\* nothing for the other chunks; the considered chunks are all chunks yielded,
\* or with an extension filter those whose name ends in '.' + extension; and on
\* an unchanged 'done' manifest whose bundle resolves, the call returns, a chunk
\* of another kind causing no error.
C17_TagsPerChunk ==
    \A t \in Threads :
        (th[t].status # "idle" /\ th[t].op.fn = "get_as_tags")
        => LET tagged == SelectSeq(Considered(th[t].yielded, th[t].op.extension),
                                   LAMBDA c : IsScript(c["name"]) \/ IsStyle(c["name"]))
           IN /\ Len(th[t].tags) = Len(tagged)
              /\ \A i \in DOMAIN tagged :
                     /\ th[t].tags[i].tag
                            = IF IsScript(tagged[i]["name"]) THEN "script" ELSE "link"
                     /\ th[t].tags[i].url = conditional_escape(tagged[i]["__url__"])
                     /\ th[t].tags[i].attrs = conditional_escape(th[t].op.attrs)
              /\ (/\ Ended(t) /\ ~Cfg(t).CACHE /\ FileStaysDone
                  /\ Resolvable(stats_file, th[t].op.bundle_name))
                     => th[t].status = "returned"

\* C17 witness: get_as_tags without filter has returned script and link tags
\* for the five chunks of main, among them gzipped ones and a source map
C17_Witness ==
    \E t \in Threads :
        /\ th[t].status = "returned" /\ th[t].op.fn = "get_as_tags"
        /\ th[t].op.extension = None
        /\ NamesOf(th[t].yielded) = MTags.chunks["main"]
        /\ [i \in DOMAIN th[t].tags |-> th[t].tags[i].tag]
               = <<"script", "script", "link", "link">>

\* C17 witness of the filter: get_as_tags with extension gz has returned a
\* script and a link tag out of five chunks
C17_FilterWitness ==
    \E t \in Threads :
        /\ th[t].status = "returned" /\ th[t].op.fn = "get_as_tags"
        /\ th[t].op.extension = Some(<<"g", "z">>)
        /\ Len(th[t].yielded) = 5
        /\ [i \in DOMAIN th[t].tags |-> th[t].tags[i].tag] = <<"script", "link">>

\* C18: with TIMEOUT absent or positive, a get_assets or get_bundle call that
\* read the manifest has ended with a result or with one error of the
\* taxonomy: get_assets and raise_error_from_stats do not call each other until
\* the interpreter stops them.
C18_BoundedCalls ==
    \A t \in Threads :
        (/\ Ended(t) /\ th[t].op.fn \in {"get_bundle", "get_assets"}
         /\ Cfg(t).TIMEOUT # Some(0)
         /\ th[t].reads # << >>)
        => \/ th[t].status = "returned"
           \/ th[t].exc \in Taxonomy

\* WebpackLoaderTimeoutError is raised in no call: the first get_assets() of
\* get_bundle hands out 'done' manifests only, so the loop of lines 173-179 is
\* never entered and timed_out stays False
TimeoutNeverRaised ==
    \A t \in Threads :
        /\ th[t].exc # "WebpackLoaderTimeoutError"
        /\ th[t].sleeps = 0 /\ th[t].forced <= 1
        /\ \A i \in DOMAIN th[t].stack : ~th[t].stack[i].timed_out

\* C19: a get_bundle call that failed with WebpackLoaderTimeoutError read a
\* manifest of status 'initialization' or 'compile' last.
C19_TimeoutOnlyWhilePending ==
    \A t \in Threads :
        (EndedBundle(t) /\ th[t].exc = "WebpackLoaderTimeoutError")
        => /\ th[t].reads # << >>
           /\ Pending(th[t].reads[Len(th[t].reads)])

\* C20: with CACHE off, a get_bundle call whose first read of the manifest
\* returned a 'done' manifest M ends as the resolution of the bundle against M
\* alone does, whatever the build tool writes to the file while the chunks are
\* iterated: with the chunks of M if M declares the bundle and has its assets,
\* and with WebpackBundleLookupError if not.
C20_SingleManifest ==
    \A t \in Threads :
        (/\ EndedBundle(t) /\ ~Cfg(t).CACHE
         /\ th[t].reads # << >> /\ th[t].reads[1].status = "done")
        => IF Resolvable(th[t].reads[1], th[t].op.bundle_name)
           THEN /\ th[t].status = "returned"
                /\ FromOneManifest(th[t], Cfg(t), th[t].reads[1])
           ELSE th[t].status = "raised" /\ th[t].exc = "WebpackBundleLookupError"

\* C20, where the file is not rewritten during the call (the part of C20 the
\* code keeps)
C20_SingleManifest_NoRewrite ==
    \A t \in Threads :
        (/\ EndedBundle(t) /\ ~Cfg(t).CACHE
         /\ SameManifest(t) /\ th[t].reads[1].status = "done")
        => IF Resolvable(th[t].reads[1], th[t].op.bundle_name)
           THEN /\ th[t].status = "returned"
                /\ FromOneManifest(th[t], Cfg(t), th[t].reads[1])
           ELSE th[t].status = "raised" /\ th[t].exc = "WebpackBundleLookupError"

====
